---- MODULE Spec2Model ----
(***************************************************************************)
(* A model of the ike-gc semispace collector (src/src/gc.rs) at the level  *)
(* of machine words.  The heap is the 2*S byte mapping, word by word; a    *)
(* header is two words (tagged descriptor word, size).  Every handler of   *)
(* GCAlloc is one action; the loops of collect() are recursive operators   *)
(* over a record holding the collector's fields.                           *)
(*                                                                         *)
(* Two descriptors stand for the embedder's payload types: VCons, the     *)
(* Cons of tests/simple.rs (two Option<Gc<Cons>> fields, modelled one word *)
(* each with the null word for None), and VLeaf, a payload without managed *)
(* pointers whose callbacks do nothing.  Two more stand for an embedder    *)
(* whose callbacks call back into the &mut GCAlloc they are handed: the    *)
(* callbacks of VProbe allocate, those of VRecur call collect().           *)
(*                                                                         *)
(* Accesses outside the mapping are undefined behaviour: the oracle `o`    *)
(* of an operation chooses whether such an access faults, and which words  *)
(* a read that does not fault yields; a write that does not fault lands    *)
(* outside the modelled memory.  A call through a word that is not a       *)
(* descriptor address ends in status "wild".                               *)
(***************************************************************************)
EXTENDS Integers, Sequences, FiniteSets, TLC

\* ---------------------------------------------------------------- bounds
HalfCells == 5
MaxHandles == 2
\* How often the embedder performs each kind of operation under Spec ...
MaxAllocs == 2
MaxWrites == 1
MaxAcquires == 1
MaxReleases == 1
MaxCollects == 2
\* ... and under SpecDeep, whose inputs are fewer and whose runs are longer.
DeepAllocs == 3
DeepWrites == 1
DeepAcquires == 2
DeepCollects == 3
\* ... and under SpecReent, whose embedder has callbacks that call back.
ReentAllocs == 3
ReentAcquires == 2
ReentCollects == 2
\* ... and under SpecTyped, whose Cons cells are born pointing at other cells.
TypedAllocs == 4
TypedAcquires == 2
TypedCollects == 1
\* ... and under SpecMove, which follows cells through repeated collections.
MoveAllocs == 3
MoveAcquires == 1
MoveCollects == 2
\* usize is modelled WordBits wide (TLC's integers are 32 bits wide).
WordBits == 20

\* ------------------------------------------------------------- constants
ALIGNMENT == 16
WordSize == 8
HeaderSize == 2 * WordSize
ChunkSize == HalfCells * ALIGNMENT
Base == 256 * ALIGNMENT
VCons == Base - 8 * ALIGNMENT
VLeaf == Base - 4 * ALIGNMENT
VProbe == Base - 6 * ALIGNMENT
VRecur == Base - 2 * ALIGNMENT
Descriptors == {VCons, VLeaf, VProbe, VRecur}

MapAddrs == {Base + WordSize * i : i \in 0 .. ((2 * ChunkSize) \div WordSize - 1)}
InMap(a) == a \in MapAddrs

\* Words a read outside the mapping may yield, and the oracles of an operation.
OutsideWords == {0, VLeaf}
Oracles == [fault : BOOLEAN, w1 : OutsideWords, w2 : OutsideWords]
WordModulus == 2 ^ WordBits

\* ------------------------------------------------------ tagged word (TAG_BITS = 1)
\* x & !(1 << 1)
ClearBit1(x) == x - 2 * ((x \div 2) % 2)
\* x | t  for t in {0, 1}
OrTag(x, t) == IF x % 2 = 1 THEN x ELSE x + t

TagPtr(w) == w - (w % 2)
TagOf(w) == w % 2
SetTag(w, t) == OrTag(ClearBit1(w), t)
SetPtr(w, p) == OrTag(p, TagOf(w))
NewFree == 0

IsFree(w) == TagPtr(w) = 0
IsMarked(w) == TagOf(w) = 1

\* ------------------------------------------------------------ raw memory
Aligned(a) == a % WordSize = 0

\* The collector record after an access to address a.
Access(g, a, o) ==
    IF g.status # "ok" THEN g
    ELSE IF ~Aligned(a) THEN [g EXCEPT !.status = "wild"]
    ELSE IF InMap(a) THEN g
    ELSE IF o.fault THEN [g EXCEPT !.status = "segv", !.ub = TRUE]
    ELSE [g EXCEPT !.ub = TRUE]

Load(g, a, o) ==
    IF InMap(a) THEN g.mem[a]
    ELSE IF (a \div WordSize) % 2 = 0 THEN o.w1 ELSE o.w2

Store(g, a, v, o) ==
    LET g1 == Access(g, a, o)
    IN  IF g1.status = "ok" /\ InMap(a) THEN [g1 EXCEPT !.mem[a] = v] ELSE g1

header_from_ptr(p) == p - HeaderSize
ptr_from_header(h) == h + HeaderSize

Panic(g) == IF g.status = "ok" THEN [g EXCEPT !.status = "panic"] ELSE g

\* usize subtraction a - b: wraps, unless the build checks overflow and panics.
USub(a, b) == IF a >= b THEN a - b ELSE a - b + WordModulus
USubCheck(g, a, b) ==
    IF g.status # "ok" \/ a >= b THEN g
    ELSE IF g.overflow_checks THEN [g EXCEPT !.status = "panic"]
    ELSE g

\* usize addition a + b
UAdd(a, b) == (a + b) % WordModulus
UAddCheck(g, a, b) ==
    IF g.status # "ok" \/ a + b < WordModulus THEN g
    ELSE IF g.overflow_checks THEN [g EXCEPT !.status = "panic"]
    ELSE g

\* A walk of a half that is still running after MaxWalk headers has wrapped
\* around and come back: it is reported as status "hang".
MaxWalk == 4 * HalfCells
Hang(g) == IF g.status = "ok" THEN [g EXCEPT !.status = "hang"] ELSE g

\* A header is about to be written at address `at`, for the half at `half`.
NoteHeader(g, at, half) ==
    IF g.status # "ok" THEN g
    ELSE [g EXCEPT !.headers = Append(@, [at |-> at, half |-> half])]

\* ---------------------------------------------------------------- header
\* GCHeader::mark: sets the mark bit unless it is set already.
GCHeader_mark(g, h, o) ==
    LET w == Load(g, h, o)
    IN  IF IsMarked(w) THEN g ELSE Store(g, h, SetTag(w, 1), o)

GCHeader_unmark(g, h, o) == Store(g, h, SetTag(Load(g, h, o), 0), o)

set_fwd_ptr(g, h, p, o) == Store(g, h, SetPtr(Load(g, h, o), p), o)

fwd_ptr(g, h, o) == TagPtr(Load(g, h, o))

\* ------------------------------------------------- callbacks of the embedder
mark_accessible(g, p) ==
    [g EXCEPT !.work_list = Append(@, header_from_ptr(p))]

\* rewrite_ptr(&slot): the header is taken behind the slot itself.
rewrite_ptr(g, slot, o) ==
    LET header == header_from_ptr(slot)
        g1 == Access(g, header, o)
        fwd == fwd_ptr(g1, header, o)
        g2 == [g1 EXCEPT !.fwd_reads = Append(@, header),
                             !.fwd_after = Append(@, Len(g1.copied))]
    IN  IF g1.status # "ok" THEN g1
        ELSE IF fwd = 0 THEN Panic(g2)
        ELSE Store(g2, slot, fwd, o)

ConsMarkSlot(g, slot, o) ==
    LET g1 == Access(g, slot, o)
    IN  IF g1.status # "ok" THEN g1
        ELSE IF Load(g1, slot, o) # 0 THEN mark_accessible(g1, Load(g1, slot, o))
        ELSE g1

cons_mark(g, p, o) == ConsMarkSlot(ConsMarkSlot(g, p, o), p + WordSize, o)

ConsRewriteSlot(g, slot, o) ==
    LET g1 == Access(g, slot, o)
    IN  IF g1.status # "ok" THEN g1
        ELSE IF Load(g1, slot, o) # 0 THEN rewrite_ptr(g1, slot, o)
        ELSE g1

cons_rewrite(g, p, o) == ConsRewriteSlot(ConsRewriteSlot(g, p, o), p + WordSize, o)

cons_free(g, p, o) == g

\* The callbacks receive &mut GCAlloc and may call its public operations.
RECURSIVE allocate(_, _, _, _)
RECURSIVE allocate_typed(_, _, _, _, _)
RECURSIVE collect(_, _)

\* What an operation of the collector can change.
Observable(g) ==
    [mem |-> g.mem, from_half |-> g.from_half, to_half |-> g.to_half,
     from_cursor |-> g.from_cursor, in_gc |-> g.in_gc,
     work_list |-> g.work_list, handles |-> g.handles,
     gc_count |-> g.gc_count, total |-> g.meta_total_allocated,
     high |-> g.meta_high_water_mark, status |-> g.status, ub |-> g.ub]

\* The record r a call made inside callback cb came back with, noted in the
\* log together with what the callback saw before (g) and after the call.
Note(g, r, cb, call) ==
    [r EXCEPT !.reent = Append(@, [cb |-> cb, call |-> call, in_gc |-> g.in_gc,
                                   ret |-> r.ret, status |-> r.status,
                                   count |-> r.gc_count - g.gc_count,
                                   same |-> Observable(r) = Observable(g)])]

probe_mark(g, p, o) == Note(g, allocate(g, VLeaf, 0, o), "trace", "allocate")
probe_rewrite(g, p, o) ==
    Note(g, allocate_typed(g, VCons, 0, 0, o), "relocate", "allocate_typed")
probe_free(g, p, o) == Note(g, allocate(g, VLeaf, 0, o), "destroy", "allocate")
recur_cb(g, cb, o) == Note(g, collect(g, o), cb, "collect")

\* A call of callback cb through the descriptor address vt.
CallMark(g, vt, p, o) ==
    LET g1 == [g EXCEPT !.traced = Append(@, p), !.flags = Append(@, g.in_gc)]
    IN  IF g.status # "ok" THEN g
        ELSE IF vt = VCons THEN cons_mark(g1, p, o)
        ELSE IF vt = VLeaf THEN g1
        ELSE IF vt = VProbe THEN probe_mark(g1, p, o)
        ELSE IF vt = VRecur THEN recur_cb(g1, "trace", o)
        ELSE [g EXCEPT !.status = "wild"]

CallRewrite(g, vt, p, o) ==
    LET g1 == [g EXCEPT !.relocated = Append(@, p), !.flags = Append(@, g.in_gc)]
    IN  IF g.status # "ok" THEN g
        ELSE IF vt = VCons THEN cons_rewrite(g1, p, o)
        ELSE IF vt = VLeaf THEN g1
        ELSE IF vt = VProbe THEN probe_rewrite(g1, p, o)
        ELSE IF vt = VRecur THEN recur_cb(g1, "relocate", o)
        ELSE [g EXCEPT !.status = "wild"]

CallFree(g, vt, p, o) ==
    LET g1 == [g EXCEPT !.destroyed = Append(@, p), !.flags = Append(@, g.in_gc)]
    IN  IF g.status # "ok" THEN g
        ELSE IF vt = VCons THEN cons_free(g1, p, o)
        ELSE IF vt = VLeaf THEN g1
        ELSE IF vt = VProbe THEN probe_free(g1, p, o)
        ELSE IF vt = VRecur THEN recur_cb(g1, "destroy", o)
        ELSE [g EXCEPT !.status = "wild"]

\* ------------------------------------------------------------- collector
HandleKeys == 1 .. MaxHandles
NoHandle == 0

RECURSIVE MarkRootsFrom(_, _)
MarkRootsFrom(g, k) ==
    IF k > MaxHandles THEN g
    ELSE IF g.handles[k] = NoHandle THEN MarkRootsFrom(g, k + 1)
    ELSE MarkRootsFrom(
             [g EXCEPT !.work_list = Append(@, header_from_ptr(g.handles[k]))],
             k + 1)

mark_roots(g) == IF g.status # "ok" THEN g ELSE MarkRootsFrom(g, 1)

RECURSIVE mark(_, _)
mark(g, o) ==
    IF g.status # "ok" \/ g.work_list = <<>> THEN g
    ELSE LET ptr == Head(g.work_list)
             g0 == [g EXCEPT !.work_list = Tail(@)]
             g1 == Access(g0, ptr, o)
         IN  IF ptr = 0 THEN Panic(g0)
             ELSE IF g1.status # "ok" THEN g1
             ELSE IF IsMarked(Load(g1, ptr, o)) THEN mark(g1, o)
             ELSE LET g2 == GCHeader_mark(g1, ptr, o)
                      vt == Load(g2, ptr, o)
                  IN  IF IsFree(vt) THEN Panic(g2)
                      ELSE mark(CallMark(g2, TagPtr(vt), ptr_from_header(ptr), o), o)

\* std::ptr::copy_nonoverlapping(src, dst, sz)
CopyBytes(g, src, dst, sz, o) ==
    LET lo == Base
        hi == Base + 2 * ChunkSize
        outside == src < lo \/ dst < lo \/ src + sz > hi \/ dst + sz > hi
        overlap == (IF dst >= src THEN dst - src ELSE src - dst) < sz
        g1 == IF outside THEN Access(g, hi, o) ELSE g
    IN  IF g.status # "ok" THEN g
        ELSE IF sz % WordSize # 0 \/ overlap THEN [g EXCEPT !.status = "wild"]
        ELSE IF g1.status # "ok" THEN g1
        ELSE [g1 EXCEPT !.mem = [a \in MapAddrs |->
                 IF a >= dst /\ a < dst + sz
                 THEN Load(g1, src + (a - dst), o) ELSE g1.mem[a]]]

\* The loop of copy(); g.to_cursor holds the local to_cursor.
RECURSIVE CopyLoop(_, _, _, _, _, _)
CopyLoop(g, from_space, to_space, from_cursor, n, o) ==
    IF g.status # "ok" \/ from_cursor >= ChunkSize THEN g
    ELSE IF n >= MaxWalk THEN Hang(g)
    ELSE LET from_ptr == from_space + from_cursor
             g1 == Access(Access(g, from_ptr, o), from_ptr + WordSize, o)
             sz == Load(g1, from_ptr + WordSize, o)
             vt == Load(g1, from_ptr, o)
             to_ptr == to_space + g.to_cursor
         IN  IF g1.status # "ok" THEN g1
             ELSE IF sz < HeaderSize THEN Panic(g1)
             ELSE IF IsFree(vt)
                  THEN CopyLoop(UAddCheck(g1, from_cursor, sz), from_space, to_space,
                                UAdd(from_cursor, sz), n + 1, o)
             ELSE IF ~IsMarked(vt)
                  THEN CopyLoop(UAddCheck(CallFree(g1, TagPtr(vt), from_ptr, o),
                                          from_cursor, sz),
                                from_space, to_space, UAdd(from_cursor, sz), n + 1, o)
             ELSE LET g2 == CopyBytes(g1, from_ptr, to_ptr, sz, o)
                      g3 == set_fwd_ptr(g2, from_ptr, ptr_from_header(to_ptr), o)
                      g4 == GCHeader_unmark(g3, to_ptr, o)
                      g5 == [g4 EXCEPT !.to_cursor = UAdd(@, sz),
                                       !.copied = Append(@,
                                           [from |-> from_ptr, to |-> to_ptr, sz |-> sz])]
                      g6 == UAddCheck(UAddCheck(g5, from_cursor, sz), g4.to_cursor, sz)
                  IN  IF g4.status # "ok" THEN g4
                      ELSE CopyLoop(g6, from_space, to_space,
                                    UAdd(from_cursor, sz), n + 1, o)

\* The free block written at the end of copy().
Seal(g, to_space, space_size, o) ==
    LET free_ptr == to_space + g.to_cursor
        g1 == USubCheck(g, space_size, g.to_cursor)
        g2 == Store(NoteHeader(g1, free_ptr, to_space), free_ptr, NewFree, o)
    IN  Store(g2, free_ptr + WordSize, USub(space_size, g.to_cursor), o)

copy(g, from_space, to_space, space_size, o) ==
    Seal(CopyLoop([g EXCEPT !.to_cursor = 0], from_space, to_space, 0, 0, o),
         to_space, space_size, o)

RECURSIVE RewriteLoop(_, _, _, _, _, _)
RewriteLoop(g, space, space_size, cursor, n, o) ==
    IF g.status # "ok" \/ cursor >= space_size THEN g
    ELSE IF n >= MaxWalk THEN Hang(g)
    ELSE LET hdr == space + cursor
             g1 == Access(Access(g, hdr, o), hdr + WordSize, o)
             sz == Load(g1, hdr + WordSize, o)
             total_sz == UAdd(sz, HeaderSize)
             vt == Load(g1, hdr, o)
             g2 == UAddCheck(g1, sz, HeaderSize)
         IN  IF g2.status # "ok" THEN g2
             ELSE IF IsFree(vt)
                  THEN RewriteLoop(UAddCheck(g2, cursor, total_sz), space, space_size,
                                   UAdd(cursor, total_sz), n + 1, o)
             ELSE RewriteLoop(UAddCheck(CallRewrite(g2, TagPtr(vt), g2.to_half + cursor, o),
                                        cursor, total_sz),
                              space, space_size, UAdd(cursor, total_sz), n + 1, o)

rewrite_ptrs(g, space, space_size, o) == RewriteLoop(g, space, space_size, 0, 0, o)

RECURSIVE RewriteHandlesFrom(_, _, _)
RewriteHandlesFrom(g, k, o) ==
    IF g.status # "ok" \/ k > MaxHandles THEN g
    ELSE IF g.handles[k] = NoHandle THEN RewriteHandlesFrom(g, k + 1, o)
    ELSE LET header == header_from_ptr(g.handles[k])
             g1 == Access(g, header, o)
             fwd == fwd_ptr(g1, header, o)
             g2 == [g1 EXCEPT !.fwd_reads = Append(@, header),
                             !.fwd_after = Append(@, Len(g1.copied))]
         IN  IF g1.status # "ok" THEN g1
             ELSE IF fwd = 0 THEN Panic(g2)
             ELSE RewriteHandlesFrom([g2 EXCEPT !.handles[k] = fwd], k + 1, o)

rewrite_handles(g, o) == RewriteHandlesFrom(g, 1, o)

\* The end of collect() without the swap.
Flip_no_swap(g) ==
    IF g.status # "ok" THEN g
    ELSE [g EXCEPT !.from_cursor = g.to_cursor, !.in_gc = FALSE]

\* The swap of the halves that ends collect().
Flip(g) ==
    IF g.status # "ok" THEN g
    ELSE [g EXCEPT !.from_half = g.to_half, !.to_half = g.from_half,
                   !.from_cursor = g.to_cursor, !.in_gc = FALSE]

\* The phases of collect() that take the halves from the collector's fields.
CopyPhase(g, o) == copy(g, g.from_half, g.to_half, ChunkSize, o)
RewritePhase(g, o) == rewrite_ptrs(g, g.to_half, ChunkSize, o)

\* collect that returns, as allocate does, when a collection is in progress.
collect_quiet(g, o) ==
    IF g.status # "ok" \/ g.in_gc THEN g
    ELSE Flip(rewrite_handles(RewritePhase(CopyPhase(
             mark(mark_roots([g EXCEPT !.in_gc = TRUE, !.gc_count = @ + 1]), o), o), o), o))

collect(g, o) ==
    IF g.status # "ok" THEN g
    ELSE IF g.in_gc THEN Panic(g)
    ELSE Flip(rewrite_handles(
             RewritePhase(
                 CopyPhase(
                     mark(mark_roots([g EXCEPT !.in_gc = TRUE, !.gc_count = @ + 1]), o),
                     o),
                 o),
             o))

\* ------------------------------------------------------------- allocator
next_multiple_of(x, m) == ((x + m - 1) \div m) * m

AllocSize(raw_sz) == next_multiple_of(HeaderSize + raw_sz, ALIGNMENT)

\* The writes of allocate() once the request fits; `available` is the value
\* the code holds in its outer binding, computed before any collection.
\* allocate taking the high-water mark before it moves the cursor.
AllocWrite_stale_mark(g, vt, sz, available, o) ==
    LET start_ptr == g.from_half + g.from_cursor
        g1 == Store(Store(NoteHeader(g, start_ptr, g.from_half), start_ptr, vt, o),
                    start_ptr + WordSize, sz, o)
        g2 == [g1 EXCEPT !.from_cursor = @ + sz,
                         !.meta_total_allocated = @ + sz,
                         !.meta_high_water_mark =
                             IF @ >= g1.from_cursor THEN @ ELSE g1.from_cursor]
        free_ptr == start_ptr + sz
        g3 == USubCheck(g2, available, sz)
        g4 == Store(Store(NoteHeader(g3, free_ptr, g.from_half), free_ptr, NewFree, o),
                    free_ptr + WordSize, USub(available, sz), o)
    IN  IF g4.status # "ok" THEN g4
        ELSE [g4 EXCEPT !.ret = start_ptr + HeaderSize]

AllocWrite(g, vt, sz, available, o) ==
    LET start_ptr == g.from_half + g.from_cursor
        g1 == Store(Store(NoteHeader(g, start_ptr, g.from_half), start_ptr, vt, o),
                    start_ptr + WordSize, sz, o)
        g2 == [g1 EXCEPT !.from_cursor = @ + sz,
                         !.meta_total_allocated = @ + sz,
                         !.meta_high_water_mark =
                             IF @ >= g1.from_cursor + sz THEN @ ELSE g1.from_cursor + sz]
        free_ptr == start_ptr + sz
        g3 == USubCheck(g2, available, sz)
        g4 == Store(Store(NoteHeader(g3, free_ptr, g.from_half), free_ptr, NewFree, o),
                    free_ptr + WordSize, USub(available, sz), o)
    IN  IF g4.status # "ok" THEN g4
        ELSE [g4 EXCEPT !.ret = start_ptr + HeaderSize]

\* allocate() from its second test on; g is the collector after the collection
\* (collected) or as it was on entry, `available` the outer binding.
AllocFit(g, collected, vt, sz, available, o) ==
    LET g2 == IF collected THEN USubCheck(g, ChunkSize, g.from_cursor) ELSE g
    IN  IF g2.status # "ok" THEN g2
        ELSE IF collected /\ sz > USub(ChunkSize, g2.from_cursor)
             THEN [g2 EXCEPT !.ret = 0]
        ELSE AllocWrite(g2, vt, sz, available, o)

\* allocate() from its first test on.
AllocCheck(g, vt, sz, available, o) ==
    IF g.status # "ok" THEN g
    ELSE AllocFit(IF sz > available THEN collect(g, o) ELSE g,
                  sz > available, vt, sz, available, o)

\* allocate without its first test.
allocate_unguarded(g, vt, raw_sz, o) ==
    AllocCheck(USubCheck(g, ChunkSize, g.from_cursor), vt, AllocSize(raw_sz),
               USub(ChunkSize, g.from_cursor), o)

allocate(g, vt, raw_sz, o) ==
    IF g.status # "ok" THEN g
    ELSE IF g.in_gc THEN [g EXCEPT !.ret = 0]
    ELSE AllocCheck(USubCheck(g, ChunkSize, g.from_cursor), vt, AllocSize(raw_sz),
                    USub(ChunkSize, g.from_cursor), o)

\* allocate_typed::<Cons>(vt, Cons { car, cdr })
ConsSize == 2 * WordSize

\* allocate_typed() after its call of allocate(), which left the collector as g.
TypedInit(g, init_gc_cnt, vt, car, cdr, o) ==
    LET ptr == g.ret
        g2 == Store(Store(g, ptr, car, o), ptr + WordSize, cdr, o)
    IN  IF g.status # "ok" \/ ptr = 0 THEN g
        ELSE IF g.gc_count # init_gc_cnt THEN CallRewrite(g2, vt, ptr, o)
        ELSE g2

allocate_typed(g, vt, car, cdr, o) ==
    TypedInit(allocate(g, vt, ConsSize, o), g.gc_count, vt, car, cdr, o)

\* ---------------------------------------------------------- handle table
FreeKeys(g) == {k \in HandleKeys : g.handles[k] = NoHandle}
FirstFreeKey(g) == CHOOSE k \in FreeKeys(g) : \A j \in FreeKeys(g) : k <= j

acquire_handle(g, ptr) ==
    IF g.status # "ok" THEN g
    ELSE IF ptr % ALIGNMENT # 0 THEN Panic(g)
    ELSE IF ~(ptr >= g.from_half) THEN Panic(g)
    ELSE [g EXCEPT !.handles[FirstFreeKey(g)] = ptr, !.ret = FirstFreeKey(g)]

get_handle(g, key) == g.handles[key]

release_handle(g, key) == [g EXCEPT !.handles[key] = NoHandle]

in_young_gen(g, ptr) == ptr >= g.from_half /\ ptr < g.from_half + ChunkSize

\* ------------------------------------------------------------------ state
VARIABLES
    mem,                    \* the 2*S byte mapping, word by word
    from_half, to_half,     \* base addresses of the active and the scratch half
    from_cursor,
    in_gc,
    work_list,
    handles,                \* key -> payload address, NoHandle for a vacant key
    gc_count,
    meta_total_allocated,
    meta_high_water_mark,
    overflow_checks,        \* the build panics on integer overflow
    status,                 \* "ok", "panic", "segv", "wild" or "hang"
    ub,                     \* an access outside the mapping has happened
    cells,                  \* the embedder's cells: [ptr, vt, sz], current addresses
    fresh,                  \* pointers allocate returned since the last collection
    last,                   \* the last operation, its result and the state before it
    log,                    \* the callbacks and moves of the last operation
    ops                     \* operations performed, by kind

gcvars == <<mem, from_half, to_half, from_cursor, in_gc, work_list, handles,
            gc_count, meta_total_allocated, meta_high_water_mark,
            overflow_checks, status, ub>>
vars == <<mem, from_half, to_half, from_cursor, in_gc, work_list, handles,
          gc_count, meta_total_allocated, meta_high_water_mark,
          overflow_checks, status, ub, cells, fresh, last, log, ops>>

EmptyLog == [traced |-> <<>>, relocated |-> <<>>, destroyed |-> <<>>,
             copied |-> <<>>, fwd_reads |-> <<>>, flags |-> <<>>, reent |-> <<>>,
     fwd_after |-> <<>>, headers |-> <<>>]

\* The collector as a record, at the start of an operation.
Cur ==
    [mem |-> mem, from_half |-> from_half, to_half |-> to_half,
     from_cursor |-> from_cursor, to_cursor |-> 0, in_gc |-> in_gc,
     work_list |-> work_list, handles |-> handles, gc_count |-> gc_count,
     meta_total_allocated |-> meta_total_allocated,
     meta_high_water_mark |-> meta_high_water_mark,
     overflow_checks |-> overflow_checks, status |-> status, ub |-> FALSE,
     ret |-> 0, traced |-> <<>>, relocated |-> <<>>, destroyed |-> <<>>,
     copied |-> <<>>, fwd_reads |-> <<>>, flags |-> <<>>, reent |-> <<>>,
     fwd_after |-> <<>>, headers |-> <<>>]

Install(g) ==
    /\ mem' = g.mem
    /\ from_half' = g.from_half
    /\ to_half' = g.to_half
    /\ from_cursor' = g.from_cursor
    /\ in_gc' = g.in_gc
    /\ work_list' = g.work_list
    /\ handles' = g.handles
    /\ gc_count' = g.gc_count
    /\ meta_total_allocated' = g.meta_total_allocated
    /\ meta_high_water_mark' = g.meta_high_water_mark
    /\ overflow_checks' = g.overflow_checks
    /\ status' = g.status
    /\ ub' = (ub \/ g.ub)
    /\ log' = [traced |-> g.traced, relocated |-> g.relocated,
               destroyed |-> g.destroyed, copied |-> g.copied,
               fwd_reads |-> g.fwd_reads, flags |-> g.flags, reent |-> g.reent,
               fwd_after |-> g.fwd_after, headers |-> g.headers]

Pre ==
    [mem |-> mem, from_half |-> from_half, to_half |-> to_half,
     from_cursor |-> from_cursor, handles |-> handles, gc_count |-> gc_count,
     meta_total_allocated |-> meta_total_allocated,
     meta_high_water_mark |-> meta_high_water_mark, cells |-> cells,
     op |-> last.op]

\* ------------------------------------------------------------ the embedder
SeqRange(s) == {s[i] : i \in 1 .. Len(s)}

CellAt(cs, p) == CHOOSE c \in cs : c.ptr = p
IsCell(cs, p) == \E c \in cs : c.ptr = p
IsCons(cs, p) == \E c \in cs : c.ptr = p /\ c.vt = VCons

\* The managed pointers stored in the payload at p.
Children(m, cs, p) ==
    IF IsCons(cs, p)
    THEN {m[s] : s \in {p, p + WordSize} \cap MapAddrs} \ {0}
    ELSE {}

RECURSIVE ReachFrom(_, _, _)
ReachFrom(m, cs, R) ==
    LET R2 == R \cup UNION {Children(m, cs, p) : p \in R}
    IN  IF R2 = R THEN R ELSE ReachFrom(m, cs, R2)

Roots(h) == {h[k] : k \in HandleKeys} \ {NoHandle}

\* Every address reachable from a handle through managed pointers.
Reachable(m, h, cs) == ReachFrom(m, cs, Roots(h))

\* The pointers the embedder holds: fresh ones and those it reaches from handles.
EmbedderPtrs == {p \in fresh \cup Reachable(mem, handles, cells) : IsCell(cells, p)}
ConsPtrs == {p \in EmbedderPtrs : IsCons(cells, p)}

\* The embedder's cells after an operation that left the collector as g.
MovedCells(g) ==
    IF g.gc_count = gc_count THEN cells
    ELSE {[ptr |-> ptr_from_header(e.to), vt |-> c.vt, sz |-> c.sz] :
            <<c, e>> \in {x \in cells \X SeqRange(g.copied) :
                             x[2].from = header_from_ptr(x[1].ptr)}}

CellsAfter(g, vt) ==
    MovedCells(g) \cup
    (IF g.status = "ok" /\ g.ret # 0
     THEN {[ptr |-> g.ret, vt |-> vt, sz |-> g.from_cursor - (g.ret - HeaderSize - g.from_half)]}
     ELSE {})

FreshAfter(g) ==
    (IF g.gc_count = gc_count THEN fresh ELSE {}) \cup
    (IF g.status = "ok" /\ g.ret # 0 THEN {g.ret} ELSE {})

\* Payload sizes asked of allocate: the smallest, one that needs padding, the
\* largest a half can hold, and one byte more.
PayloadSizes == {0, 1, ChunkSize - HeaderSize, ChunkSize - HeaderSize + 1}

\* Addresses no allocation of the active half returned.
BadAnchors ==
    {from_half + HeaderSize + WordSize, to_half + HeaderSize, from_half + ChunkSize}

Budget ==
    [alloc |-> MaxAllocs, write |-> MaxWrites, acquire |-> MaxAcquires,
     release |-> MaxReleases, collect |-> MaxCollects]
DeepBudget ==
    [alloc |-> DeepAllocs, write |-> DeepWrites, acquire |-> DeepAcquires,
     release |-> 0, collect |-> DeepCollects]
TypedBudget ==
    [alloc |-> TypedAllocs, write |-> 0, acquire |-> TypedAcquires,
     release |-> 0, collect |-> TypedCollects]
MoveBudget ==
    [alloc |-> MoveAllocs, write |-> 0, acquire |-> MoveAcquires,
     release |-> 0, collect |-> MoveCollects]
ReentBudget ==
    [alloc |-> ReentAllocs, write |-> 0, acquire |-> ReentAcquires,
     release |-> 0, collect |-> ReentCollects]

Ready(B, kind) == status = "ok" /\ ops[kind] < B[kind]
Count(kind) == ops' = [ops EXCEPT ![kind] = @ + 1]

\* ---------------------------------------------------------------- actions
Init ==
    /\ mem = [a \in MapAddrs |-> 0]
    /\ from_half = Base
    /\ to_half = Base + ChunkSize
    /\ from_cursor = 0
    /\ in_gc = FALSE
    /\ work_list = <<>>
    /\ handles = [k \in HandleKeys |-> NoHandle]
    /\ gc_count = 0
    /\ meta_total_allocated = 0
    /\ meta_high_water_mark = 0
    /\ overflow_checks \in BOOLEAN
    /\ status = "ok"
    /\ ub = FALSE
    /\ cells = {}
    /\ fresh = {}
    /\ last = [op |-> "new", arg |-> <<>>, ret |-> 0, pre |-> <<>>]
    /\ log = EmptyLog
    /\ ops = [kind \in DOMAIN Budget |-> 0]

\* allocate(vt, n)
AllocateOf(B, vts, sizes) ==
    /\ Ready(B, "alloc")
    /\ \E vt \in vts, n \in sizes :
         \E g \in {allocate(Cur, vt, n, o) : o \in Oracles} :
             /\ Install(g)
             /\ cells' = CellsAfter(g, vt)
             /\ fresh' = FreshAfter(g)
             /\ last' = [op |-> "allocate", arg |-> <<vt, n>>,
                         ret |-> g.ret, pre |-> Pre]
    /\ Count("alloc")

\* allocate_typed(&VCons, Cons { car, cdr })
AllocateTypedOf(B, fields) ==
    /\ Ready(B, "alloc")
    /\ \E car \in fields, cdr \in fields :
         \E g \in {allocate_typed(Cur, VCons, car, cdr, o) : o \in Oracles} :
             /\ Install(g)
             /\ cells' = CellsAfter(g, VCons)
             /\ fresh' = FreshAfter(g)
             /\ last' = [op |-> "allocate_typed", arg |-> <<VCons, car, cdr>>,
                         ret |-> g.ret, pre |-> Pre]
    /\ Count("alloc")

\* The embedder stores a managed pointer (or None) in a field of a Cons.
WritePtrOf(B) ==
    /\ Ready(B, "write")
    /\ \E p \in ConsPtrs, i \in {0, 1}, q \in ConsPtrs \cup {0} :
         /\ mem[p + WordSize * i] # q
         /\ mem' = [mem EXCEPT ![p + WordSize * i] = q]
         /\ last' = [op |-> "write", arg |-> <<p, i, q>>, ret |-> 0, pre |-> Pre]
    /\ log' = EmptyLog
    /\ Count("write")
    /\ UNCHANGED <<from_half, to_half, from_cursor, in_gc, work_list, handles,
                   gc_count, meta_total_allocated, meta_high_water_mark,
                   overflow_checks, status, ub, cells, fresh>>

AcquireHandleOf(B, ptrs) ==
    /\ Ready(B, "acquire")
    /\ FreeKeys(Cur) # {}
    /\ \E p \in ptrs :
         \E g \in {acquire_handle(Cur, p)} :
             /\ Install(g)
             /\ last' = [op |-> "acquire_handle", arg |-> <<p>>,
                         ret |-> g.ret, pre |-> Pre]
    /\ Count("acquire")
    /\ UNCHANGED <<cells, fresh>>

ReleaseHandleOf(B) ==
    /\ Ready(B, "release")
    /\ \E k \in HandleKeys :
         /\ handles[k] # NoHandle
         /\ Install(release_handle(Cur, k))
         /\ last' = [op |-> "release_handle", arg |-> <<k>>, ret |-> 0, pre |-> Pre]
    /\ Count("release")
    /\ UNCHANGED <<cells, fresh>>

CollectOf(B) ==
    /\ Ready(B, "collect")
    /\ \E g \in {collect(Cur, o) : o \in Oracles} :
         /\ Install(g)
         /\ cells' = MovedCells(g)
         /\ fresh' = {}
         /\ last' = [op |-> "collect", arg |-> <<>>, ret |-> 0, pre |-> Pre]
    /\ Count("collect")

Allocate == AllocateOf(Budget, {VLeaf}, PayloadSizes)
AllocateTyped == AllocateTypedOf(Budget, ConsPtrs \cup {0})
WritePtr == WritePtrOf(Budget)
AcquireHandle == AcquireHandleOf(Budget, EmbedderPtrs \cup BadAnchors)
ReleaseHandle == ReleaseHandleOf(Budget)
Collect == CollectOf(Budget)

Next ==
    \/ Allocate
    \/ AllocateTyped
    \/ WritePtr
    \/ AcquireHandle
    \/ ReleaseHandle
    \/ Collect

Spec == Init /\ [][Next]_vars

\* Longer runs of a well-behaved embedder: the smallest leaves, Cons cells
\* born empty, handles only on pointers it holds.
DeepAllocate == AllocateOf(DeepBudget, {VLeaf}, {0})
DeepAllocateTyped == AllocateTypedOf(DeepBudget, {0})
DeepWritePtr == WritePtrOf(DeepBudget)
DeepAcquireHandle == AcquireHandleOf(DeepBudget, EmbedderPtrs)
DeepCollect == CollectOf(DeepBudget)

NextDeep ==
    \/ DeepAllocate
    \/ DeepAllocateTyped
    \/ DeepWritePtr
    \/ DeepAcquireHandle
    \/ DeepCollect

SpecDeep == Init /\ [][NextDeep]_vars

\* An embedder whose cells are leaves, cells whose callbacks allocate and
\* cells whose callbacks collect.
ReentAllocate == AllocateOf(ReentBudget, {VLeaf, VProbe, VRecur}, {0})
ReentAcquireHandle == AcquireHandleOf(ReentBudget, EmbedderPtrs)
ReentCollect == CollectOf(ReentBudget)

NextReent ==
    \/ ReentAllocate
    \/ ReentAcquireHandle
    \/ ReentCollect

SpecReent == Init /\ [][NextReent]_vars

\* An embedder that builds its structure through allocate_typed alone.
TypedAllocate == AllocateOf(TypedBudget, {VLeaf}, {0})
TypedAllocateTyped == AllocateTypedOf(TypedBudget, ConsPtrs \cup {0})
TypedAcquireHandle == AcquireHandleOf(TypedBudget, EmbedderPtrs)
TypedCollect == CollectOf(TypedBudget)

NextTyped ==
    \/ TypedAllocate
    \/ TypedAllocateTyped
    \/ TypedAcquireHandle
    \/ TypedCollect

SpecTyped == Init /\ [][NextTyped]_vars

\* An embedder that allocates leaves with and without payload and empty Cons
\* cells, anchors some of them and collects repeatedly.
MoveAllocate == AllocateOf(MoveBudget, {VLeaf}, {0, 1})
MoveAllocateTyped == AllocateTypedOf(MoveBudget, {0})
MoveAcquireHandle == AcquireHandleOf(MoveBudget, EmbedderPtrs)
MoveCollect == CollectOf(MoveBudget)

NextMove ==
    \/ MoveAllocate
    \/ MoveAllocateTyped
    \/ MoveAcquireHandle
    \/ MoveCollect

SpecMove == Init /\ [][NextMove]_vars

\* The same embedder asking for every kind of payload size, the one that
\* fits no half included.
MetaAllocate == AllocateOf(MoveBudget, {VLeaf}, PayloadSizes)

NextMeta ==
    \/ MetaAllocate
    \/ MoveAllocateTyped
    \/ MoveAcquireHandle
    \/ MoveCollect

SpecMeta == Init /\ [][NextMeta]_vars

\* ================================================================ claims
\* What the last operation did, read from `last` and `log`.
Done(op) == last.op = op /\ status = "ok"
\* The same, in a run where no access has left the mapping so far.
Clean(op) == Done(op) /\ ~ub
PreCellPtrs == {c.ptr : c \in last.pre.cells}
\* The cells a handle reached when the last operation started.
PreReach ==
    Reachable(last.pre.mem, last.pre.handles, last.pre.cells) \cap PreCellPtrs
\* Headers destroy was called for, headers copied, and where a cell went.
Destroyed == SeqRange(log.destroyed)
CopiedFrom == {e.from : e \in SeqRange(log.copied)}
WasMoved(p) == header_from_ptr(p) \in CopiedFrom
NewAddr(p) ==
    ptr_from_header(
        (CHOOSE e \in SeqRange(log.copied) : e.from = header_from_ptr(p)).to)
\* The cell whose payload is at p lies in the active half (a cell without
\* payload may end exactly at the end of the half).
InActive(p) == in_young_gen(Cur, header_from_ptr(p))

\* C1: every cell a handle reaches when collect() starts is copied into the
\* new active half, and destroy is not invoked on it.
C1_ReachableSurvive ==
    Clean("collect") =>
        \A p \in PreReach :
            /\ WasMoved(p)
            /\ InActive(NewAddr(p))
            /\ header_from_ptr(p) \notin Destroyed

\* C2: collect() destroys every cell no handle reaches when it starts and does
\* not keep it; with no handle at all the cursor is 0 afterwards.
C2_UnreachableReclaimed ==
    Clean("collect") =>
        /\ \A p \in PreCellPtrs \ PreReach :
              header_from_ptr(p) \in Destroyed /\ ~WasMoved(p)
        /\ (Roots(last.pre.handles) = {} => from_cursor = 0)

\* C3: after collect() every managed-pointer field of every surviving cell
\* holds the new payload address of the cell it referred to before, inside
\* the new active half.
C3_FieldsRewritten ==
    Clean("collect") =>
        \A p \in PreCellPtrs :
            (WasMoved(p) /\ IsCons(last.pre.cells, p)) =>
                \A i \in {0, 1} :
                    LET old == last.pre.mem[p + WordSize * i]
                        new == mem[NewAddr(p) + WordSize * i]
                    IN  /\ (old = 0 => new = 0)
                        /\ (old \in PreCellPtrs =>
                               WasMoved(old) /\ new = NewAddr(old) /\ InActive(new))

RECURSIVE WalkFrom(_, _)
WalkFrom(off, n) ==
    IF off = ChunkSize THEN <<>>
    ELSE IF off > ChunkSize \/ off < 0 \/ n > 2 * HalfCells THEN <<-1>>
    ELSE IF ~InMap(from_half + off + WordSize) THEN <<-1>>
    ELSE IF mem[from_half + off + WordSize] <= 0 THEN <<off, -1>>
    ELSE <<off>> \o WalkFrom(off + mem[from_half + off + WordSize], n + 1)

Walk == WalkFrom(0, 0)

\* C5: after collect() the walk of the active half covers exactly S bytes and
\* ends with a free cell at the cursor of size S - cursor.
C5_WalkCoversHalf ==
    Clean("collect") =>
        /\ Walk # <<>>
        /\ -1 \notin SeqRange(Walk)
        /\ Walk[Len(Walk)] = from_cursor
        /\ IsFree(mem[from_half + from_cursor])
        /\ mem[from_half + from_cursor + WordSize] = ChunkSize - from_cursor

\* C6: between collections no cell of the active half is marked and every
\* header holds its descriptor, not a forwarding address.
C6_NoMarkBetweenCollections ==
    (status = "ok" /\ ~in_gc) =>
        \A c \in cells :
            /\ ~IsMarked(mem[header_from_ptr(c.ptr)])
            /\ TagPtr(mem[header_from_ptr(c.ptr)]) = c.vt

\* C7: allocate runs the collector once if the request exceeds S - cursor on
\* entry and not at all otherwise; it returns absent exactly when the request
\* still exceeds S - cursor after that collection, and a pointer otherwise.
C7_CollectOnceThenAbsentOrPointer ==
    last.op = "allocate" =>
        LET need == AllocSize(last.arg[2])
            short == need > ChunkSize - last.pre.from_cursor
        IN  /\ status = "ok"
            /\ gc_count = last.pre.gc_count + (IF short THEN 1 ELSE 0)
            /\ (last.ret = 0) <=> (short /\ need > ChunkSize - from_cursor)
            /\ (last.ret # 0 => from_cursor <= ChunkSize)

\* C8: a successful allocate writes {descriptor, mark 0, need} at the cursor
\* it found (the cursor the collection left, if one ran), advances the cursor
\* by need, writes a free header of size S - cursor at the new cursor and
\* returns the old cursor's address plus sizeof(header).
C8_AllocateWrites ==
    (Done("allocate") /\ last.ret # 0) =>
        LET need == AllocSize(last.arg[2])
            cell == header_from_ptr(last.ret)
            free == from_half + from_cursor
        IN  /\ mem[cell] = last.arg[1]
            /\ mem[cell + WordSize] = need
            /\ (last.arg[2] = 0 => need = HeaderSize)
            /\ from_cursor = (cell - from_half) + need
            /\ (gc_count = last.pre.gc_count =>
                   cell = last.pre.from_half + last.pre.from_cursor)
            /\ (InMap(free + WordSize) =>
                   IsFree(mem[free]) /\ mem[free + WordSize] = ChunkSize - from_cursor)

\* C9: an allocation that needs exactly the free space succeeds and leaves
\* cursor = S; one payload byte more than the largest request that fits
\* returns absent when the collection frees nothing.
C9_ExactFitAndOneMore ==
    last.op = "allocate" =>
        LET n == last.arg[2]
            room == ChunkSize - last.pre.from_cursor
        IN  /\ (AllocSize(n) = room =>
                   status = "ok" /\ last.ret # 0 /\ from_cursor = ChunkSize)
            /\ (n > 0 /\ AllocSize(n - 1) <= room /\ AllocSize(n) > room
                  /\ log.destroyed = <<>>)
                   => (status = "ok" /\ last.ret = 0)

\* C10: acquire_handle aborts and inserts nothing when the pointer is not
\* 16-byte aligned or lies outside the active half; it inserts an entry only
\* for an aligned address inside the active half.
C10_AcquireRejectsBadAnchor ==
    last.op = "acquire_handle" =>
        LET p == last.arg[1]
            good == /\ p % ALIGNMENT = 0
                    /\ p >= last.pre.from_half
                    /\ p < last.pre.from_half + ChunkSize
        IN  /\ (~good => status = "panic" /\ handles = last.pre.handles)
            /\ (handles # last.pre.handles => good)

\* Calls made from inside a callback, as the log of the last operation has them.
Reent == SeqRange(log.reent)
ReentAllocs_InGc == {e \in Reent : e.call \in {"allocate", "allocate_typed"} /\ e.in_gc}

\* C11: allocate or allocate_typed called from a trace, relocate or destroy
\* callback while a collection is in progress returns absent and changes
\* nothing: cursor, heap words, handle table, GC count and metadata are as
\* they were, no collection was started.
C11_AllocateDuringGcAbsent ==
    \A e \in ReentAllocs_InGc : e.ret = 0 /\ e.same /\ e.count = 0 /\ e.status = "ok"
\* A completed collection in which all three callbacks called allocate.
C11_Witness ==
    /\ Done("collect")
    /\ {e.cb : e \in ReentAllocs_InGc} = {"trace", "relocate", "destroy"}
    /\ \E e \in ReentAllocs_InGc : e.call = "allocate_typed"

ReentCollects_InGc == {e \in Reent : e.call = "collect" /\ e.in_gc}

\* C12: collect() called while a collection is in progress aborts; in_gc is
\* set at every callback invocation collect() makes and clear once collect()
\* has returned, so that the next collect() is accepted (it counts itself).
C12_RecursiveCollectAborts ==
    /\ \A e \in ReentCollects_InGc : e.status = "panic" /\ e.count = 0
    /\ last.op \in {"collect", "allocate"} =>
           \A i \in 1 .. Len(log.flags) : log.flags[i]
    /\ status = "ok" => ~in_gc
    /\ last.op = "collect" => gc_count = last.pre.gc_count + 1
\* A second collection, accepted after a completed one, in which a callback
\* called collect().
C12_Witness ==
    /\ last.op = "collect"
    /\ gc_count = 2
    /\ ReentCollects_InGc # {}
    /\ Len(log.flags) > 0

\* C13: a collect() right after a collect() leaves the cursor where it was
\* and raises the GC count by exactly one; and any collection that destroys
\* no cell leaves the cursor at its value of before the collection.
C13_CursorStable ==
    last.op = "collect" /\ ~ub =>
        /\ last.pre.op = "collect" =>
               /\ status = "ok"
               /\ from_cursor = last.pre.from_cursor
               /\ gc_count = last.pre.gc_count + 1
        /\ status = "ok" /\ Destroyed = {} => from_cursor = last.pre.from_cursor

\* C14: allocate_typed calls the relocate callback on the new payload exactly
\* when a collection ran during the call, and after such a call every field
\* of the new payload that was given the address of a handle-anchored cell
\* holds the address that cell was moved to.
C14_TypedRelocated ==
    Clean("allocate_typed") /\ last.ret # 0 =>
        /\ (Len(log.relocated) > 0 /\ log.relocated[Len(log.relocated)] = last.ret)
              <=> gc_count # last.pre.gc_count
        /\ gc_count # last.pre.gc_count =>
              \A i \in {0, 1} :
                  LET old == last.arg[2 + i]
                  IN  old \in Roots(last.pre.handles) \cap PreCellPtrs /\ WasMoved(old)
                         => mem[last.ret + WordSize * i] = NewAddr(old)

\* The cells that, when the last operation started, a handle reached and
\* that reached themselves through managed pointers.
OnCycle ==
    {p \in PreReach :
        p \in ReachFrom(last.pre.mem, last.pre.cells,
                        Children(last.pre.mem, last.pre.cells, p))}
NoRepeat(s) == \A i, j \in 1 .. Len(s) : s[i] = s[j] => i = j

\* C15: with a cycle of managed pointers reachable from a handle (a cell
\* pointing at itself included) collect() terminates, mark traces no cell
\* twice and leaves the work list empty; every cell of the cycle is copied and
\* each of its pointers into the cycle holds the new address of its target;
\* a collection repeated right after leaves the cursor where it was.
C15_CyclesPreserved ==
    last.op = "collect" /\ ~ub /\ OnCycle # {} =>
        /\ status # "hang"
        /\ NoRepeat(log.traced)
        /\ status = "ok" =>
              /\ work_list = <<>>
              /\ \A p \in OnCycle :
                    /\ WasMoved(p)
                    /\ \A i \in {0, 1} :
                          LET q == last.pre.mem[p + WordSize * i]
                          IN  q \in OnCycle /\ WasMoved(q) =>
                                 mem[NewAddr(p) + WordSize * i] = NewAddr(q)
              /\ last.pre.op = "collect" => from_cursor = last.pre.from_cursor

\* C16: collect() on a heap that holds no allocated cell, a heap fresh from
\* new() included, completes without aborting and leaves the cursor at 0 and
\* one free cell of size S at offset 0 of the active half.
C16_CollectEmptyHeap ==
    last.op = "collect" /\ last.pre.cells = {} /\ ~ub =>
        /\ status = "ok"
        /\ from_cursor = 0
        /\ IsFree(mem[from_half])
        /\ mem[from_half + WordSize] = ChunkSize

\* The last operation returned a managed pointer / ran a collection to its end.
Allocated == last.op \in {"allocate", "allocate_typed"} /\ status = "ok" /\ last.ret # 0
Collected ==
    last.op \in {"allocate", "allocate_typed", "collect"} /\ status = "ok"
        /\ gc_count # last.pre.gc_count
\* The cells the collection moved whose address was in the active half before.
MovedFromActive == {p \in PreCellPtrs : WasMoved(p) /\ in_young_gen(last.pre, p)}

RECURSIVE CopiedBytes(_)
CopiedBytes(n) == IF n = 0 THEN 0 ELSE CopiedBytes(n - 1) + log.copied[n].sz
\* The size the embedder's cell with header h had before the last operation.
OriginalSize(h) ==
    IF \E c \in last.pre.cells : header_from_ptr(c.ptr) = h
    THEN (CHOOSE c \in last.pre.cells : header_from_ptr(c.ptr) = h).sz
    ELSE 0
\* What copy did: survivors packed from offset 0, in their old order, sizes kept.
CopyCompacts ==
    /\ \A i \in 1 .. Len(log.copied) :
          /\ log.copied[i].to = from_half + CopiedBytes(i - 1)
          /\ log.copied[i].sz = OriginalSize(log.copied[i].from)
    /\ \A i, j \in 1 .. Len(log.copied) :
          i < j => log.copied[i].from < log.copied[j].from
    /\ from_cursor = CopiedBytes(Len(log.copied))

\* C18: after collect() the surviving cells lie in the new active half one
\* after the other from offset 0, in the order they had in the old half,
\* each with its original size in its header, and the cursor is the sum of
\* their sizes.
C18_SurvivorsCompacted ==
    Clean("collect") =>
        /\ CopyCompacts
        /\ \A i \in 1 .. Len(log.copied) :
              mem[log.copied[i].to + WordSize] = OriginalSize(log.copied[i].from)

\* The payload addresses of the copies the last collection made.
CopiedPayloads == {ptr_from_header(e.to) : e \in SeqRange(log.copied)}

\* C19: in the rewrite phase of collect() the relocate callback is called
\* once for each cell copied to scratch, with the payload address of the
\* copy, and for nothing else.
C19_RelocateEachCopyOnce ==
    Clean("collect") =>
        /\ NoRepeat(log.relocated)
        /\ SeqRange(log.relocated) = CopiedPayloads

\* C20: in the copy phase of collect() destroy is called once for each
\* non-free cell of the active half whose mark bit is clear after marking,
\* with the payload address of that cell, and for no other cell; a destroyed
\* cell is not copied.
C20_DestroyEachDeadOnce ==
    Clean("collect") =>
        /\ NoRepeat(log.destroyed)
        /\ Destroyed \subseteq PreCellPtrs
        /\ \A p \in Destroyed : ~WasMoved(p)
        /\ \A p \in PreCellPtrs : WasMoved(p) \/ p \in Destroyed

\* C21: the phases of collect() run one after the other, so that every read
\* of a forwarding word, by rewrite_ptr or by the rewrite of the handles,
\* comes after the last copy of the collection and reads the old header of a
\* cell this collection copied, where copy installed the forwarding address.
C21_ForwardReadsAfterCopy ==
    Clean("collect") =>
        /\ \A i \in 1 .. Len(log.fwd_after) : log.fwd_after[i] = Len(log.copied)
        /\ \A h \in SeqRange(log.fwd_reads) : h \in CopiedFrom

\* C22: every header allocate writes (the cell's and the trailing free
\* cell's) lies wholly inside the active half, and the header copy writes to
\* seal the scratch half lies wholly inside the scratch half: a header is
\* written at offset o of its half only when o + sizeof(header) <= S.
C22_HeadersInsideHalf ==
    \A e \in SeqRange(log.headers) :
        e.at >= e.half /\ e.at + HeaderSize <= e.half + ChunkSize

\* The bytes the last allocation asked for, header and padding included.
Need ==
    IF last.op = "allocate" THEN AllocSize(last.arg[2]) ELSE AllocSize(ConsSize)
Larger(a, b) == IF a >= b THEN a ELSE b
\* How many collections the last operation had to run.
CollectionsDue ==
    IF last.op = "collect" THEN 1
    ELSE IF last.op \in {"allocate", "allocate_typed"}
              /\ Need > ChunkSize - last.pre.from_cursor THEN 1
    ELSE 0

\* C23: 0 <= cursor <= high_water_mark <= S in every state; total_allocated
\* grows by exactly need on a successful allocate and by nothing on a failed
\* allocate, a collect or any other operation; high_water_mark is the largest
\* cursor seen right after an allocation; the collection count grows by one
\* per collect(), explicit or made by allocate, and by nothing otherwise.
C23_MetadataConsistent ==
    status = "ok" =>
        /\ 0 <= from_cursor
        /\ from_cursor <= meta_high_water_mark
        /\ meta_high_water_mark <= ChunkSize
        /\ last.op # "new" =>
              /\ meta_total_allocated =
                     last.pre.meta_total_allocated + (IF Allocated THEN Need ELSE 0)
              /\ meta_high_water_mark =
                     IF Allocated
                     THEN Larger(last.pre.meta_high_water_mark, from_cursor)
                     ELSE last.pre.meta_high_water_mark
              /\ gc_count = last.pre.gc_count + CollectionsDue
\* An allocate that collected and then failed, after allocations that
\* succeeded and a collection that lowered the cursor below the high-water mark.
C23_Witness ==
    /\ status = "ok"
    /\ last.op = "allocate"
    /\ last.ret = 0
    /\ gc_count = 2
    /\ meta_total_allocated > 0
    /\ from_cursor < meta_high_water_mark

====
